---- MODULE Spec2Model ----
(***************************************************************************)
(* Symbol allocation (src/circuit/symbol.rs) and the bit-packed Parameter  *)
(* (src/circuit/parameter.rs) of the trident quantum-circuit library.      *)
(*                                                                         *)
(* Machine words are modelled at a reduced width: a u32 and an f32 have    *)
(* U32_BITS bits (32 in the program), of which the f32 uses one for the    *)
(* sign, FracBits for the fraction (23 in the program) and the rest for    *)
(* the exponent; a usize has more bits than a u32.                         *)
(* Every constant of the program is written as the program derives it from *)
(* these widths (u32::MAX, f32::MANTISSA_DIGITS, f32::INFINITY.to_bits()). *)
(***************************************************************************)
EXTENDS Integers, Sequences, FiniteSets, TLC

\* ---- bounds ----------------------------------------------------------
U32_BITS == 3
FracBits == 1
MaxN == 2
MaxLen == 2
MaxTuple == 2
MaxIters == 2
MaxExtraNext == 2

\* ---- machine words ---------------------------------------------------
ExpBits == U32_BITS - 1 - FracBits
U32_MAX == 2^U32_BITS - 1
MANTISSA_DIGITS == FracBits + 1

U32 == 0..U32_MAX

\* `x as u32` of a usize: truncation to the low bits
AsU32(x) == x % (U32_MAX + 1)

\* u32 `+` and `-`: the wrapped value, and whether the exact result leaves u32
\* (a panic when overflow checks are compiled in, the wrapped value otherwise)
U32Add(x, y) == (x + y) % (U32_MAX + 1)
U32AddOverflows(x, y) == x + y > U32_MAX
U32Sub(x, y) == (x - y + U32_MAX + 1) % (U32_MAX + 1)
U32SubOverflows(x, y) == x < y

\* ---- symbol kinds ----------------------------------------------------
Kinds == {"Qubit", "FormalParameter", "Bit"}

MAX(K) == IF K = "Bit" THEN 2^MANTISSA_DIGITS ELSE U32_MAX - 1

\* Symbol::count: the counter of the builder that allocations of kind K use
\* (qubit_count_mut, parameter_count_mut, bit_count_mut), named by its kind
Symbol_count_shared(K) == IF K = "Bit" THEN "Qubit" ELSE K

Symbol_count(K) == K

VARIABLES count, issued, last, qrun, panicked

vars == <<count, issued, last, qrun, panicked>>

NoList == [start |-> 0, end |-> 0]

\* ---- Symbol::checked_incr ---------------------------------------------
checked_incr_le(K, a, n) ==
    LET room == U32Sub(MAX(K), a)
        ovf0 == U32SubOverflows(MAX(K), a)
    IN  IF n <= room
        THEN [ok |-> TRUE, a |-> U32Add(a, AsU32(n)),
              ovf |-> ovf0 \/ U32AddOverflows(a, AsU32(n))]
        ELSE [ok |-> FALSE, a |-> a, ovf |-> ovf0]

checked_incr_wrapping(K, a, n) ==
    [ok |-> TRUE, a |-> U32Add(a, AsU32(n)),
     ovf |-> U32SubOverflows(MAX(K), a) \/ U32AddOverflows(a, AsU32(n))]

checked_incr(K, a, n) ==
    LET room == U32Sub(MAX(K), a)
        ovf0 == U32SubOverflows(MAX(K), a)
    IN  IF n < room
        THEN [ok |-> TRUE, a |-> U32Add(a, AsU32(n)),
              ovf |-> ovf0 \/ U32AddOverflows(a, AsU32(n))]
        ELSE [ok |-> FALSE, a |-> a, ovf |-> ovf0]

\* ---- Symbol::alloc ------------------------------------------------------
alloc_post(K, c) ==
    LET r == checked_incr(K, c, 1)
    IN  [ok |-> r.ok, count |-> r.a, ovf |-> r.ovf,
         syms |-> IF r.ok THEN <<r.a>> ELSE <<>>]


\* .map(|_| res) of the Result r of checked_incr
alloc_map(r, res) ==
    [ok |-> r.ok, count |-> r.a, ovf |-> r.ovf, syms |-> IF r.ok THEN <<res>> ELSE <<>>]

alloc(K, c) == alloc_map(checked_incr(K, c, 1), c)

\* ---- Symbol::alloc_n ----------------------------------------------------
alloc_n_desc(K, c, N) ==
    LET r == checked_incr(K, c, N)
    IN  [ok |-> r.ok, count |-> r.a,
         ovf |-> r.ovf \/ (r.ok /\ N > 0 /\ U32AddOverflows(c, N)),
         syms |-> IF r.ok THEN [i \in 1..N |-> U32Sub(U32Add(c, N), i)] ELSE <<>>]

alloc_n(K, c, N) ==
    LET start == c
        r == checked_incr(K, c, N)
    IN  [ok |-> r.ok, count |-> r.a,
         ovf |-> r.ovf \/ (r.ok /\ N > 0 /\ U32AddOverflows(start, N)),
         syms |-> IF r.ok THEN [i \in 1..N |-> U32Add(start, i - 1)] ELSE <<>>]

\* ---- Symbol::alloc_list -------------------------------------------------
from_range(s, e) == [start |-> s, end |-> e]

alloc_list_closed(K, c, len) ==
    LET r == checked_incr(K, c, len)
    IN  [ok |-> r.ok, count |-> r.a, ovf |-> r.ovf,
         list |-> IF r.ok THEN from_range(c, U32Add(r.a, 1)) ELSE NoList]

alloc_list(K, c, len) ==
    LET start == c
        r == checked_incr(K, c, len)
    IN  [ok |-> r.ok, count |-> r.a, ovf |-> r.ovf,
         list |-> IF r.ok THEN from_range(start, r.a) ELSE NoList]

\* ---- List ----------------------------------------------------------------
\* Option<T>: <<>> is None, <<x>> is Some(x)
None == <<>>
Some(x) == <<x>>

List_len(l) == U32Sub(l.end, l.start)
List_len_overflows(l) == U32SubOverflows(l.end, l.start)

List_is_empty(l) == List_len(l) = 0

List_get_inclusive(l, n) ==
    IF n <= List_len(l) THEN Some(U32Add(AsU32(n), l.start)) ELSE None

List_get(l, n) ==
    IF n < List_len(l) THEN Some(U32Add(AsU32(n), l.start)) ELSE None
List_get_overflows(l, n) ==
    \/ List_len_overflows(l)
    \/ n < List_len(l) /\ U32AddOverflows(AsU32(n), l.start)

List_contains(l, id) == l.start <= id /\ id < l.end

\* List::new(start, end): the closed range of the two symbols
List_new(start, end) ==
    IF start <= end THEN Some(from_range(start, U32Add(end, 1))) ELSE None
List_new_overflows(start, end) == start <= end /\ U32AddOverflows(end, 1)

\* From<T> for List<T>
List_from(sym) == from_range(sym, U32Add(sym, 1))
List_from_overflows(sym) == U32AddOverflows(sym, 1)

\* List::iter: the iterator owns a clone of the List
List_iter(l) == l

\* SymbolIter::next: self.inner.range.next().map(T::new); Range::next yields
\* start and steps it while start < end
SymbolIter_next_inclusive(it) ==
    IF it.start <= it.end
    THEN [res |-> Some(it.start), inner |-> [it EXCEPT !.start = U32Add(it.start, 1)]]
    ELSE [res |-> None, inner |-> it]

SymbolIter_next(it) ==
    IF it.start < it.end
    THEN [res |-> Some(it.start), inner |-> [it EXCEPT !.start = U32Add(it.start, 1)]]
    ELSE [res |-> None, inner |-> it]

\* ---- f32 and Parameter ------------------------------------------------------
\* An f32 is its bit pattern: the sign bit, ExpBits exponent bits, FracBits
\* fraction bits; from_bits and to_bits reinterpret the same bits.
RECURSIVE BitOr(_, _)
BitOr(x, y) ==
    IF x = 0 THEN y
    ELSE IF y = 0 THEN x
    ELSE 2 * BitOr(x \div 2, y \div 2) + (IF x % 2 = 1 \/ y % 2 = 1 THEN 1 ELSE 0)

RECURSIVE BitAnd(_, _)
BitAnd(x, y) ==
    IF x = 0 \/ y = 0 THEN 0
    ELSE 2 * BitAnd(x \div 2, y \div 2) + (IF x % 2 = 1 /\ y % 2 = 1 THEN 1 ELSE 0)

f32_exponent(bits) == (bits \div 2^FracBits) % 2^ExpBits
f32_fraction(bits) == bits % 2^FracBits
f32_negative(bits) == bits \div 2^(ExpBits + FracBits) = 1

\* f32::INFINITY.to_bits(): exponent all ones, fraction zero
INFINITY_BITS == (2^ExpBits - 1) * 2^FracBits

\* f32::is_finite: the exponent is not all ones
is_finite(bits) == f32_exponent(bits) # 2^ExpBits - 1

\* the number a finite f32 stands for, in units of the smallest subnormal
f32_units(bits) ==
    LET e == f32_exponent(bits)
        m == IF e = 0 THEN f32_fraction(bits)
             ELSE (2^FracBits + f32_fraction(bits)) * 2^(e - 1)
    IN  IF f32_negative(bits) THEN 0 - m ELSE m

\* units of the smallest subnormal in 1.0: 2^(bias + FracBits - 1)
f32_units_per_one == 2^((2^(ExpBits - 1) - 1) + FracBits - 1)

\* Parameter::PRECISION is 1 / PRECISION_INV
PRECISION_INV == 10000

Abs(x) == IF x < 0 THEN 0 - x ELSE x

is_value(bits) == is_finite(bits)

is_formal(bits) == ~is_value(bits)

as_value(bits) == IF is_value(bits) THEN Some(bits) ELSE None

MANTISSA_MASK == 2^MANTISSA_DIGITS - 1

as_formal(bits) == IF is_formal(bits) THEN Some(BitAnd(bits, MANTISSA_MASK)) ELSE None

from_f32_raw(value) == value

\* From<f32> for Parameter
from_f32(value) == IF ~is_finite(value) THEN 0 ELSE value

from_formal_raw(id) == id

\* From<FormalParameter> for Parameter
from_formal(id) == BitOr(id, INFINITY_BITS)

\* PartialEq for Parameter; the difference of the two values is taken exactly
Parameter_eq(a, b) ==
    CASE is_value(a) /\ is_value(b) ->
            Abs(f32_units(a) - f32_units(b)) * PRECISION_INV < f32_units_per_one
      [] is_formal(a) /\ is_formal(b) -> a = b
      [] OTHER -> FALSE

\* ---- SymbolTuple::alloc (tuple! macro) ----------------------------------
\* Ok((b.alloc::<A>()?, b.alloc::<B>()?, ...)): one alloc per element, left
\* to right; `?` returns at the first Err.
RECURSIVE tuple_alloc_from(_, _, _)
tuple_alloc_from(ks, cnt, acc) ==
    IF ks = <<>>
    THEN [ok |-> TRUE, count |-> cnt, syms |-> acc, attempted |-> Len(acc), ovf |-> FALSE]
    ELSE LET K == Head(ks)
             r == alloc(K, cnt[Symbol_count(K)])
         IN  IF r.ok
             THEN tuple_alloc_from(Tail(ks), [cnt EXCEPT ![Symbol_count(K)] = r.count],
                                   acc \o r.syms)
             ELSE [ok |-> FALSE, count |-> [cnt EXCEPT ![Symbol_count(K)] = r.count],
                   syms |-> acc,
                   attempted |-> Len(acc) + 1, ovf |-> r.ovf]

RECURSIVE tuple_alloc_rollback_from(_, _, _, _)
tuple_alloc_rollback_from(ks, cnt0, cnt, acc) ==
    IF ks = <<>>
    THEN [ok |-> TRUE, count |-> cnt, syms |-> acc, attempted |-> Len(acc), ovf |-> FALSE]
    ELSE LET K == Head(ks)
             r == alloc(K, cnt[Symbol_count(K)])
         IN  IF r.ok
             THEN tuple_alloc_rollback_from(Tail(ks), cnt0,
                                            [cnt EXCEPT ![Symbol_count(K)] = r.count],
                                            acc \o r.syms)
             ELSE [ok |-> FALSE, count |-> cnt0, syms |-> acc,
                   attempted |-> Len(acc) + 1, ovf |-> r.ovf]

tuple_alloc_rollback(ks, cnt) == tuple_alloc_rollback_from(ks, cnt, cnt, <<>>)

tuple_alloc(ks, cnt) == tuple_alloc_from(ks, cnt, <<>>)

\* ---- the builder's counters and the allocation calls made on it ---------
\* outcomes of a call in which a u32 operation overflowed: a panic (overflow
\* checks compiled in) or the wrapped result (compiled out)
Outcomes(ovf) == IF ovf THEN BOOLEAN ELSE {FALSE}

NoOp == [op |-> "none", kind |-> "Qubit", ks |-> <<>>, n |-> 0,
         pre |-> [K \in Kinds |-> 0], ok |-> TRUE, syms |-> <<>>,
         list |-> NoList, attempted |-> 0, ovf |-> FALSE]

\* issued[K]: the highest index of kind K any alloc has returned so far, -1
\* when none has.
\* indices of kind K returned by the allocs of the call recorded in l
Handed(l, K) ==
    CASE l.op \in {"alloc", "alloc_n"} ->
            IF l.kind = K THEN {l.syms[i] : i \in 1..Len(l.syms)} ELSE {}
      [] l.op = "alloc_list" ->
            IF l.kind = K /\ l.ok THEN {i \in U32 : l.list.start <= i /\ i < l.list.end}
            ELSE {}
      [] l.op = "tuple" -> {l.syms[i] : i \in {j \in 1..Len(l.syms) : l.ks[j] = K}}
      [] OTHER -> {}

RECURSIVE Highest(_)
Highest(S) ==
    LET x == CHOOSE y \in S : TRUE
    IN  IF S = {x} THEN x
        ELSE LET h == Highest(S \ {x}) IN IF h > x THEN h ELSE x

\* consecutive alloc::<Qubit> calls made on the fresh builder, -1 once any
\* other call was made or the run is longer than MAX + 1
NextRun(isQubitAlloc) ==
    IF isQubitAlloc /\ qrun >= 0 /\ qrun <= MAX("Qubit") THEN qrun + 1 ELSE -1

Record(l, cnt, panics, isQubitAlloc) ==
    /\ panicked' = panics
    /\ count' = IF panics THEN count ELSE cnt
    /\ last' = l
    /\ issued' = IF panics THEN issued
                 ELSE [K \in Kinds |-> Highest(Handed(l, K) \cup {issued[K]})]
    /\ qrun' = NextRun(isQubitAlloc)

Init ==
    /\ count = [K \in Kinds |-> 0]
    /\ issued = [K \in Kinds |-> -1]
    /\ last = NoOp
    /\ qrun = 0
    /\ panicked = FALSE

Alloc(K) ==
    /\ ~panicked
    /\ \E r \in {alloc(K, count[Symbol_count(K)])} :
           \E p \in Outcomes(r.ovf) :
             Record([NoOp EXCEPT !.op = "alloc", !.kind = K, !.n = 1, !.pre = count,
                                 !.ok = r.ok, !.syms = r.syms, !.ovf = r.ovf],
                    [count EXCEPT ![Symbol_count(K)] = r.count], p, K = "Qubit")

\* symbols handed to List and Parameter calls come from the allocator or
\* from new_unchecked with any u32; a usize argument may exceed a u32
SymbolInputs == U32
IndexInputs == 0..(U32_MAX + 2)

NInputs == 0..MaxN

AllocN(K, N) ==
    /\ ~panicked
    /\ \E r \in {alloc_n(K, count[Symbol_count(K)], N)} :
           \E p \in Outcomes(r.ovf) :
             Record([NoOp EXCEPT !.op = "alloc_n", !.kind = K, !.n = N, !.pre = count,
                                 !.ok = r.ok, !.syms = r.syms, !.ovf = r.ovf],
                    [count EXCEPT ![Symbol_count(K)] = r.count], p, FALSE)

\* lengths asked of alloc_list: short ones, the two around the limit of the
\* kind, and one that does not fit a u32
LenInputs(K, c) ==
    (0..MaxLen) \cup {n \in {MAX(K) - c - 1, MAX(K) - c} : n >= 0} \cup {U32_MAX + 2}

AllocList(K, len) ==
    /\ ~panicked
    /\ len \in LenInputs(K, count[K])
    /\ \E r \in {alloc_list(K, count[Symbol_count(K)], len)} :
           \E p \in Outcomes(r.ovf) :
             Record([NoOp EXCEPT !.op = "alloc_list", !.kind = K, !.n = len,
                                 !.pre = count, !.ok = r.ok, !.list = r.list,
                                 !.ovf = r.ovf],
                    [count EXCEPT ![Symbol_count(K)] = r.count], p, FALSE)

TupleKinds == UNION {[1..m -> Kinds] : m \in 1..MaxTuple}

TupleAlloc(ks) ==
    /\ ~panicked
    /\ \E r \in {tuple_alloc(ks, count)} :
           \E p \in Outcomes(r.ovf) :
             Record([NoOp EXCEPT !.op = "tuple", !.ks = ks, !.n = Len(ks), !.pre = count,
                                 !.ok = r.ok, !.syms = r.syms, !.attempted = r.attempted,
                                 !.ovf = r.ovf],
                    r.count, p, FALSE)

Next ==
    \/ \E K \in Kinds : Alloc(K)
    \/ \E K \in Kinds, N \in NInputs : AllocN(K, N)
    \/ \E K \in Kinds, len \in IndexInputs : AllocList(K, len)
    \/ \E ks \in TupleKinds : TupleAlloc(ks)

Spec == Init /\ [][Next]_vars

TypeOK ==
    /\ count \in [Kinds -> U32]
    /\ issued \in [Kinds -> -1..U32_MAX]
    /\ panicked \in BOOLEAN
    /\ qrun \in -1..(MAX("Qubit") + 2)

\* ---- allocation: overflow boundary, indices, batches ---------------------
IsAllocCall == last.op \in {"alloc", "alloc_n", "alloc_list"}

\* C1: an allocation of n symbols of kind K at counter c fails, leaving the
\* counter at c, when c + n >= MAX, and succeeds when c + n < MAX.
C1_OverflowBoundary ==
    IsAllocCall =>
        LET c == last.pre[last.kind]
            M == MAX(last.kind)
        IN  /\ c + last.n >= M => ~last.ok /\ count[last.kind] = c
            /\ c + last.n < M => last.ok

C1_Witness ==
    /\ last.op = "alloc_list" /\ ~last.ok
    /\ last.n > 1 /\ last.pre[last.kind] + last.n = MAX(last.kind)

\* C2: a successful alloc returns the symbol whose index is the counter before
\* the call and leaves the counter at that index + 1.
C2_AllocIndex ==
    last.op = "alloc" /\ last.ok =>
        /\ last.syms = <<last.pre[last.kind]>>
        /\ count[last.kind] = last.syms[1] + 1

C2_Witness == last.op = "alloc" /\ last.ok /\ last.pre[last.kind] > 0

\* N alloc calls made one after the other on counters cnt
RECURSIVE SequentialAllocs(_, _, _, _)
SequentialAllocs(K, cnt, N, acc) ==
    IF N = 0 THEN [ok |-> TRUE, count |-> cnt, syms |-> acc]
    ELSE LET r == alloc(K, cnt[K])
         IN  IF ~r.ok THEN [ok |-> FALSE, count |-> cnt, syms |-> acc]
             ELSE SequentialAllocs(K, [cnt EXCEPT ![K] = r.count], N - 1, acc \o r.syms)

\* C3: a successful alloc_n::<N> at counter c returns the N symbols c, c+1, ...,
\* c+N-1 in that order and leaves the counters as N alloc calls in a row would,
\* all of which succeed and return the same symbols.
C3_AllocNIsNAllocs ==
    last.op = "alloc_n" /\ last.ok =>
        LET c == last.pre[last.kind]
            s == SequentialAllocs(last.kind, last.pre, last.n, <<>>)
        IN  /\ Len(last.syms) = last.n
            /\ \A i \in 1..last.n : last.syms[i] = c + i - 1
            /\ s.ok /\ s.count = count /\ s.syms = last.syms

C3_Witness ==
    last.op = "alloc_n" /\ last.ok /\ last.n >= 2 /\ last.pre[last.kind] > 0

\* C4 as stated: of MAX - 1 alloc::<Qubit> calls in a row on a fresh builder
\* every one succeeds and the last returns index MAX - 1; the MAX-th fails.
C4_AsStated ==
    /\ qrun \in 1..(MAX("Qubit") - 1) => last.ok
    /\ qrun = MAX("Qubit") - 1 => last.syms = <<MAX("Qubit") - 1>>
    /\ qrun = MAX("Qubit") => ~last.ok

\* C4 amended: of MAX - 1 alloc::<Qubit> calls in a row on a fresh builder every
\* one succeeds and the last returns index MAX - 2; the MAX-th call fails with
\* AllocOverflow.
C4_QubitRun ==
    /\ qrun \in 1..(MAX("Qubit") - 1) => last.op = "alloc" /\ last.ok
    /\ qrun = MAX("Qubit") - 1 => last.syms = <<MAX("Qubit") - 2>>
    /\ qrun = MAX("Qubit") => last.op = "alloc" /\ ~last.ok

C4_Witness == qrun = MAX("Qubit") /\ last.op = "alloc" /\ last.kind = "Qubit"

\* number of elements of kind K among the first m of the tuple's kinds ks
Among(ks, K, m) == Cardinality({j \in 1..m : ks[j] = K})

\* C7: a tuple allocation allocs its kinds left to right; when the i-th alloc
\* is the first to overflow the call fails, nothing after the i-th is
\* attempted, the failing alloc leaves its counter alone and the advances of
\* allocs 1..i-1 stay.
C7_TupleNoRollback ==
    last.op = "tuple" =>
        LET ks == last.ks
            at(j) == last.pre[ks[j]] + Among(ks, ks[j], j - 1)
            overflows(j) == at(j) + 1 >= MAX(ks[j])
        IN  /\ \A j \in 1..Len(last.syms) : last.syms[j] = at(j)
            /\ last.ok <=> \A j \in 1..Len(ks) : ~overflows(j)
            /\ ~last.ok =>
                 LET i == last.attempted
                 IN  /\ i \in 1..Len(ks)
                     /\ overflows(i)
                     /\ \A j \in 1..(i - 1) : ~overflows(j)
                     /\ Len(last.syms) = i - 1
                     /\ \A K \in Kinds : count[K] = last.pre[K] + Among(ks, K, i - 1)

C7_Witness ==
    /\ last.op = "tuple" /\ ~last.ok
    /\ last.attempted = 2 /\ Len(last.ks) >= 2 /\ last.ks[1] # last.ks[2]
    /\ count[last.ks[1]] = last.pre[last.ks[1]] + 1

\* C8: over any sequence of calls no counter decreases and every index a call
\* hands out is above every index of that kind handed out before, and differs
\* from the others of the same call.
C8_Monotonic ==
    [][/\ \A K \in Kinds : count'[K] >= count[K]
       /\ \A K \in Kinds : \A i \in Handed(last', K) : i > issued[K]
       /\ last'.op \in {"alloc_n", "tuple"} =>
            \A i, j \in 1..Len(last'.syms) :
                (i # j /\ (last'.op = "tuple" => last'.ks[i] = last'.ks[j]))
                    => last'.syms[i] # last'.syms[j]]_vars

C8_Witness ==
    /\ last.op = "alloc_n" /\ last.ok /\ last.n >= 2
    /\ last.pre[last.kind] > 0 /\ issued[last.kind] = count[last.kind] - 1

\* C9: a successful alloc_list of len at counter c returns the List over
\* [c, c+len): len() is len, get(i) is symbol c+i, and the counter ends at
\* c + len; with len = 0 it succeeds with an empty List and the counter as it was.
C9_AllocList ==
    last.op = "alloc_list" =>
        LET c == last.pre[last.kind]
        IN  /\ last.ok =>
                /\ last.list.start = c /\ last.list.end = c + last.n
                /\ List_len(last.list) = last.n
                /\ \A i \in 0..(last.n - 1) : List_get(last.list, i) = Some(c + i)
                /\ List_get(last.list, last.n) = None
                /\ count[last.kind] = c + last.n
            /\ last.n = 0 =>
                last.ok /\ List_is_empty(last.list) /\ count[last.kind] = c

C9_Witness ==
    last.op = "alloc_list" /\ last.ok /\ last.n >= 2 /\ last.pre[last.kind] > 0

\* ---- List: constructors and lookups ---------------------------------------
\* The calls are made on a fresh builder; last holds the List in hand (has),
\* the call made on it last and what it returned.
\* While an iterator is alive (hasit) last also holds its range (inner), the
\* number of next calls made on it (calls), the symbols they returned (yielded)
\* and how many iterators have been taken from the List in a row (iters).
NoListOp == [op |-> "none", has |-> FALSE, list |-> NoList, n |-> 0, sym |-> 0,
             sym2 |-> 0, res |-> None, ovf |-> FALSE,
             hasit |-> FALSE, inner |-> NoList, calls |-> 0, yielded |-> <<>>,
             iters |-> 0]

\* the builder next to which the List calls are made: fresh, or with every
\* counter as far as allocation can bring it
CountSamples == {[K \in Kinds |-> 0], [K \in Kinds |-> MAX(K) - 1]}

ListInit ==
    /\ count \in CountSamples
    /\ issued = [K \in Kinds |-> count[K] - 1]
    /\ last = NoListOp
    /\ qrun = IF count["Qubit"] = 0 THEN 0 ELSE -1
    /\ panicked = FALSE

ListRecord(l, panics) ==
    /\ panicked' = panics
    /\ last' = l
    /\ UNCHANGED <<count, issued, qrun>>

ListFromRangeUnchecked(s, e) ==
    /\ ~panicked
    /\ ListRecord([NoListOp EXCEPT !.op = "from_range_unchecked", !.has = TRUE,
                                   !.list = from_range(s, e), !.sym = s, !.sym2 = e],
                  FALSE)

ListNew(start, end) ==
    /\ ~panicked
    /\ LET r == List_new(start, end)
           ovf == List_new_overflows(start, end)
       IN  \E p \in Outcomes(ovf) :
             ListRecord([NoListOp EXCEPT !.op = "new", !.has = (r # None /\ ~p),
                                         !.list = IF r # None /\ ~p THEN r[1] ELSE NoList,
                                         !.sym = start, !.sym2 = end,
                                         !.res = r, !.ovf = ovf],
                        p)

ListFrom(sym) ==
    /\ ~panicked
    /\ LET ovf == List_from_overflows(sym)
       IN  \E p \in Outcomes(ovf) :
             ListRecord([NoListOp EXCEPT !.op = "from", !.has = ~p,
                                         !.list = IF p THEN NoList ELSE List_from(sym),
                                         !.sym = sym, !.ovf = ovf],
                        p)

ListLen ==
    /\ ~panicked /\ last.has
    /\ LET ovf == List_len_overflows(last.list)
       IN  \E p \in Outcomes(ovf) :
             ListRecord([NoListOp EXCEPT !.op = "len", !.has = TRUE, !.list = last.list,
                                         !.res = List_len(last.list), !.ovf = ovf],
                        p)

ListIsEmpty ==
    /\ ~panicked /\ last.has
    /\ LET ovf == List_len_overflows(last.list)
       IN  \E p \in Outcomes(ovf) :
             ListRecord([NoListOp EXCEPT !.op = "is_empty", !.has = TRUE,
                                         !.list = last.list,
                                         !.res = List_is_empty(last.list), !.ovf = ovf],
                        p)

ListGet(n) ==
    /\ ~panicked /\ last.has
    /\ LET ovf == List_get_overflows(last.list, n)
       IN  \E p \in Outcomes(ovf) :
             ListRecord([NoListOp EXCEPT !.op = "get", !.has = TRUE, !.list = last.list,
                                         !.n = n, !.res = List_get(last.list, n),
                                         !.ovf = ovf],
                        p)

ListContains(sym) ==
    /\ ~panicked /\ last.has
    /\ ListRecord([NoListOp EXCEPT !.op = "contains", !.has = TRUE, !.list = last.list,
                                   !.sym = sym, !.res = List_contains(last.list, sym)],
                  FALSE)

ListIter ==
    /\ ~panicked /\ last.has
    /\ last.iters < MaxIters
    /\ ListRecord([NoListOp EXCEPT !.op = "iter", !.has = TRUE, !.list = last.list,
                                   !.hasit = TRUE, !.inner = List_iter(last.list),
                                   !.iters = last.iters + 1],
                  FALSE)

\* IntoIterator for List: self.iter(), the List is moved
ListIntoIter ==
    /\ ~panicked /\ last.has
    /\ last.iters < MaxIters
    /\ ListRecord([NoListOp EXCEPT !.op = "into_iter", !.has = FALSE, !.list = last.list,
                                   !.hasit = TRUE, !.inner = List_iter(last.list),
                                   !.iters = last.iters + 1],
                  FALSE)

\* next is called until it has returned None MaxExtraNext times
IterNext ==
    /\ ~panicked /\ last.hasit
    /\ last.calls - Len(last.yielded) < MaxExtraNext
    /\ \E r \in {SymbolIter_next(last.inner)} :
         ListRecord([last EXCEPT !.op = "next", !.inner = r.inner, !.res = r.res,
                                 !.calls = last.calls + 1,
                                 !.yielded = last.yielded \o r.res],
                    FALSE)

ListNext ==
    \/ \E s, e \in U32 : ListFromRangeUnchecked(s, e)
    \/ \E start, end \in SymbolInputs : ListNew(start, end)
    \/ \E sym \in SymbolInputs : ListFrom(sym)
    \/ ListLen
    \/ ListIsEmpty
    \/ \E n \in IndexInputs : ListGet(n)
    \/ \E sym \in SymbolInputs : ListContains(sym)
    \/ ListIter
    \/ ListIntoIter
    \/ IterNext

ListSpec == ListInit /\ [][ListNext]_vars

\* C10: on a List over [s, e) with s <= e, len() is e - s, get(i) is the symbol
\* s + i for i < e - s and absent for i >= e - s, and contains(sym) is
\* s <= sym.index < e.
C10_ListLookups ==
    (last.has /\ ~panicked /\ last.list.start <= last.list.end) =>
        LET s == last.list.start
            e == last.list.end
        IN  /\ last.op = "len" => last.res = e - s
            /\ last.op = "get" =>
                 last.res = IF last.n < e - s THEN Some(s + last.n) ELSE None
            /\ last.op = "contains" =>
                 last.res = (s <= last.sym /\ last.sym < e)

C10_Witness ==
    /\ last.op = "get" /\ last.has /\ last.list.start > 0
    /\ last.list.end - last.list.start >= 2
    /\ last.n = last.list.end - last.list.start

\* ---- Parameter: construction, decoding, equality ---------------------------
\* last holds the Parameter in hand (bits) and what it was made from (formal:
\* from the FormalParameter with index src, else from the f32 with bits src),
\* the call made last, its other operand and its result.
NoParamOp == [op |-> "none", has |-> FALSE, bits |-> 0, formal |-> FALSE, src |-> 0,
              obits |-> 0, oformal |-> FALSE, osrc |-> 0, res |-> None]

ParamInit ==
    /\ count = [K \in Kinds |-> 0]
    /\ issued = [K \in Kinds |-> -1]
    /\ last = NoParamOp
    /\ qrun = 0
    /\ panicked = FALSE

ParamRecord(l) ==
    /\ last' = l
    /\ UNCHANGED <<count, issued, qrun, panicked>>

ParamFromFormal(id) ==
    /\ id \in SymbolInputs
    /\ ParamRecord([NoParamOp EXCEPT !.op = "from_formal", !.has = TRUE,
                                     !.bits = from_formal(id), !.formal = TRUE,
                                     !.src = id])

ParamFromF32(value) ==
    /\ value \in U32
    /\ ParamRecord([NoParamOp EXCEPT !.op = "from_f32", !.has = TRUE,
                                     !.bits = from_f32(value), !.src = value])

\* the Parameter in hand after a call on it that takes no other operand
Queried(op, res) ==
    [last EXCEPT !.op = op, !.res = res, !.obits = 0, !.oformal = FALSE, !.osrc = 0]

ParamIsValue ==
    /\ last.has
    /\ ParamRecord(Queried("is_value", is_value(last.bits)))

ParamIsFormal ==
    /\ last.has
    /\ ParamRecord(Queried("is_formal", is_formal(last.bits)))

ParamAsValue ==
    /\ last.has
    /\ ParamRecord(Queried("as_value", as_value(last.bits)))

ParamAsFormal ==
    /\ last.has
    /\ ParamRecord(Queried("as_formal", as_formal(last.bits)))

ParamEqFormal(id) ==
    /\ last.has
    /\ ParamRecord([last EXCEPT !.op = "eq", !.obits = from_formal(id), !.oformal = TRUE,
                                !.osrc = id,
                                !.res = Parameter_eq(last.bits, from_formal(id))])

ParamEqF32(value) ==
    /\ last.has
    /\ ParamRecord([last EXCEPT !.op = "eq", !.obits = from_f32(value), !.oformal = FALSE,
                                !.osrc = value,
                                !.res = Parameter_eq(last.bits, from_f32(value))])

ParamNext ==
    \/ \E id \in SymbolInputs : ParamFromFormal(id)
    \/ \E value \in U32 : ParamFromF32(value)
    \/ ParamIsValue
    \/ ParamIsFormal
    \/ ParamAsValue
    \/ ParamAsFormal
    \/ \E id \in SymbolInputs : ParamEqFormal(id)
    \/ \E value \in U32 : ParamEqF32(value)

ParamSpec == ParamInit /\ [][ParamNext]_vars

\* C5: for every FormalParameter symbol s, Parameter::from(s).as_formal() is
\* Some(s).
C5_FormalRoundTrip ==
    last.op = "as_formal" /\ last.formal => last.res = Some(last.src)

\* indices the FormalParameter counter can issue
IssuableFormal == 0..(MAX("FormalParameter") - 2)

\* C6: for FormalParameter symbols s and t the allocator can return,
\* Parameter::from(s) == Parameter::from(t) exactly when s and t have the same
\* index.
C6_FormalNoAlias ==
    (/\ last.op = "eq" /\ last.formal /\ last.oformal
     /\ last.src \in IssuableFormal /\ last.osrc \in IssuableFormal)
        => (last.res <=> last.src = last.osrc)

\* ---- allocation: counters stay below MAX --------------------------------------
\* C16: in every state allocation calls can reach each counter is below its
\* kind's MAX, so no MAX - counter underflows, no counter + n wraps and
\* index + 1 of an allocated symbol fits a u32.
C16_BelowMax ==
    /\ \A K \in Kinds : count[K] < MAX(K)
    /\ ~panicked /\ ~last.ovf
    /\ \A K \in Kinds : \A i \in Handed(last, K) : i + 1 <= U32_MAX

C16_Witness ==
    /\ last.op = "alloc" /\ ~last.ok
    /\ count[last.kind] = MAX(last.kind) - 1 /\ last.kind = "Qubit"

\* ---- List: totality ----------------------------------------------------------
\* C11: no List constructor or lookup, on any List the public constructors can
\* make, performs a u32 addition or subtraction that overflows, and a get
\* outside the range returns absent.
C11_ListTotal ==
    /\ ~panicked
    /\ ~last.ovf
    /\ (last.op = "get" /\ ~(last.list.start + last.n < last.list.end))
           => last.res = None

\* C17: List::new(start, end) is absent exactly when start > end; otherwise it
\* is the List over [start.index, end.index + 1), of length
\* end.index - start.index + 1, holding both symbols, and List::new(s, s) is the
\* List made from s.
C17_ListNew ==
    last.op = "new" =>
        /\ last.res = None <=> last.sym > last.sym2
        /\ last.sym <= last.sym2 =>
             /\ ~panicked
             /\ last.res = Some([start |-> last.sym, end |-> last.sym2 + 1])
             /\ List_len(last.list) = last.sym2 - last.sym + 1
             /\ List_contains(last.list, last.sym) /\ List_contains(last.list, last.sym2)
             /\ last.sym = last.sym2 => last.list = List_from(last.sym)

\* ---- List: iteration --------------------------------------------------------
\* C14: an iterator over a List [s, e) with s <= e yields the e - s symbols s,
\* s+1, ..., e-1 in that order, the i-th being get(i), and None on every call
\* after them; next leaves the List as it was, so each new iter() of the same
\* List yields the same sequence.
C14_Iteration ==
    (last.hasit /\ last.list.start <= last.list.end) =>
        LET s == last.list.start
            e == last.list.end
            k == IF last.calls < e - s THEN last.calls ELSE e - s
        IN  /\ last.yielded = [i \in 1..k |-> s + i - 1]
            /\ \A i \in 1..k : Some(last.yielded[i]) = List_get(last.list, i - 1)
            /\ last.op = "next" =>
                 last.res = IF last.calls <= e - s THEN Some(s + last.calls - 1) ELSE None
            /\ last.inner.end = e /\ last.inner.start = s + k

C14_Witness ==
    /\ last.hasit /\ last.op = "next" /\ last.iters = 2 /\ last.has
    /\ last.list.start > 0 /\ last.list.end - last.list.start >= 2
    /\ last.calls = last.list.end - last.list.start + 2 /\ last.res = None

\* ---- what a call may change ---------------------------------------------------
\* Runs of allocation calls and runs of List and iterator calls, each next to
\* a builder.
IsListRun == "has" \in DOMAIN last

FrameInit == Init \/ ListInit

FrameNext ==
    \/ ~IsListRun /\ Next
    \/ IsListRun /\ ListNext

FrameSpec == FrameInit /\ [][FrameNext]_vars

\* C13: an alloc, alloc_n or alloc_list call for kind K, failing or not, leaves
\* the counters of the other two kinds as they were, and no List or iterator
\* call changes any counter.
C13_Frame ==
    [][/\ (~IsListRun /\ last'.op \in {"alloc", "alloc_n", "alloc_list"}) =>
            \A K \in Kinds \ {last'.kind} : count'[K] = count[K]
       /\ IsListRun => count' = count]_vars

C13_Witness ==
    /\ ~IsListRun /\ last.op = "alloc_n" /\ last.kind = "Bit" /\ last.ok /\ last.n >= 2
    /\ count["Qubit"] > 0 /\ count["FormalParameter"] > 0

\* ---- Parameter: values -------------------------------------------------------
\* the bits of an f32 without its sign bit
Magnitude(x) == x % 2^(U32_BITS - 1)

\* NaN and the infinities: at or above the bits of +infinity, sign aside
NonFinite(x) == Magnitude(x) >= INFINITY_BITS

\* C12: the Parameter made from an f32 x is a value: as_value() is Some(0.0)
\* when x is NaN or an infinity and Some(x), bit for bit, when x is finite;
\* is_value() is true and as_formal() is absent.
C12_FromFloat ==
    (last.has /\ ~last.formal) =>
        /\ last.op = "as_value" => last.res = Some(IF NonFinite(last.src) THEN 0 ELSE last.src)
        /\ last.op = "is_value" => last.res = TRUE
        /\ last.op = "is_formal" => last.res = FALSE
        /\ last.op = "as_formal" => last.res = None

C12_Witness ==
    /\ last.has /\ ~last.formal /\ last.op = "as_value"
    /\ Magnitude(last.src) > INFINITY_BITS /\ last.res = Some(0)

\* ---- Parameter: formal references ----------------------------------------------
\* C18: the Parameter made from the FormalParameter with any u32 index has every
\* exponent bit set: is_formal() is true, is_value() false, as_value() absent,
\* and it is equal to no Parameter made from an f32, whichever side it is on.
C18_FormalDecodes ==
    /\ (last.has /\ last.formal) =>
         /\ BitAnd(last.bits, INFINITY_BITS) = INFINITY_BITS
         /\ last.op = "is_formal" => last.res = TRUE
         /\ last.op = "is_value" => last.res = FALSE
         /\ last.op = "as_value" => last.res = None
    /\ (last.has /\ last.op = "eq" /\ last.formal # last.oformal) => last.res = FALSE

C18_Witness ==
    /\ last.has /\ last.op = "eq" /\ last.formal /\ ~last.oformal
    /\ last.src >= 2^(U32_BITS - 1) /\ last.res = FALSE

====
